---- MODULE Spec2Model ----
(***************************************************************************)
(* Model of src/app.py: the 2025-26 tax calculators and the split-scenario *)
(* composer.                                                               *)
(*                                                                         *)
(* Number representation.  The program computes on binary floats; the      *)
(* model computes on exact decimals held as integers:                      *)
(*   - a money amount is an integer number of cents;                       *)
(*   - a rate is an integer number of percent (0.25 is 25);                *)
(*   - an unrounded product amount * rate is an integer number of          *)
(*     cent-percents (1/10000 of a dollar);                                *)
(*   - effective_overall_rate is an integer number of hundredths of a      *)
(*     percent.                                                            *)
(* round(x, 2) rounds to the nearest cent.  When x lies exactly half-way   *)
(* between two cents the float result depends on the representation error  *)
(* of x (round(0.005, 2) is 0.01, round(0.015, 2) is 0.01), so the model   *)
(* allows both neighbours there: every rounding operator yields the SET of *)
(* admissible results, and an operation picks one of them.                 *)
(* Sums and differences of amounts are exact in the model.  They are exact *)
(* in the program too except that float addition can move a difference of  *)
(* exactly 1.00 across the tolerance when an amount is no binary fraction; *)
(* the scenarios drawn on the tolerance therefore use amounts a float      *)
(* holds exactly (multiples of a quarter dollar).                          *)
(*                                                                         *)
(* The program is stateless: a behaviour is one call.  Init draws the      *)
(* operation and its arguments, the operation's action applies it.         *)
(***************************************************************************)
EXTENDS Integers, Sequences, FiniteSets

VARIABLES op, args, outcome, ret, taxables, step
vars == <<op, args, outcome, ret, taxables, step>>

(* ------------------------------ bounds -------------------------------- *)

\* incomes are drawn at k * 25 cents around each base amount, |k| <= MaxOff
MaxOff == 2
\* small company / fund amounts of a scenario: 0 .. MaxSmall cents
MaxSmall == 2

(* ------------------------------ helpers ------------------------------- *)

Min(a, b) == IF a <= b THEN a ELSE b
Max(a, b) == IF a >= b THEN a ELSE b
Abs(a) == IF a < 0 THEN -a ELSE a

\* float('inf') as a bracket's upper bound, in dollars: above every income
Inf == 21474836

\* dollars (as written in the source) to cents
Cents(d) == d * 100

(* round(x, 2) for x in cent-percents: the admissible results, in cents *)
round2_truncate(x) == {x \div 100}
round2(x) ==
    LET q == x \div 100
        r == x % 100
    IN  IF r < 50 THEN {q}
        ELSE IF r > 50 THEN {q + 1}
        ELSE {q, q + 1}

(* ----------------------- individual_tax_2025_26 ------------------------ *)

brackets ==
    << [lower |-> 0,      upper |-> 18200,  rate |-> 0],
       [lower |-> 18201,  upper |-> 45000,  rate |-> 16],
       [lower |-> 45001,  upper |-> 135000, rate |-> 30],
       [lower |-> 135001, upper |-> 190000, rate |-> 37],
       [lower |-> 190001, upper |-> Inf,    rate |-> 45] >>

\* max(prev, lower - 1 if lower > 0 else 0), prev in cents, lower in dollars
bracket_floor_gap(prev, lower) == Max(prev, IF lower > 0 THEN Cents(lower) ELSE 0)
bracket_floor(prev, lower) == Max(prev, IF lower > 0 THEN Cents(lower - 1) ELSE 0)

\* if taxable > 0: tax += taxable * rate
accumulate_assign(tax, taxable, rate) == IF taxable > 0 THEN taxable * rate ELSE tax
accumulate(tax, taxable, rate) == IF taxable > 0 THEN tax + taxable * rate ELSE tax

\* the for loop from bracket i on; acc holds the locals tax, prev and the
\* taxable computed in each bracket entered so far
RECURSIVE bracket_walk(_, _, _)
bracket_walk(income, i, acc) ==
    IF i > Len(brackets) \/ income <= acc.prev
    THEN acc
    ELSE LET b == brackets[i]
             taxable == Min(income, Cents(b.upper)) - bracket_floor(acc.prev, b.lower)
         IN  bracket_walk(income, i + 1,
                 [tax      |-> accumulate(acc.tax, taxable, b.rate),
                  prev     |-> Cents(b.upper),
                  taxables |-> Append(acc.taxables, taxable)])

walk(income) == bracket_walk(income, 1, [tax |-> 0, prev |-> 0, taxables |-> <<>>])

\* medicare = income * 0.02
medicare_none(income) == 0 * income
medicare(income) == income * 2

\* the function without its income <= 0 early return
individual_tax_no_guard(income) == round2(walk(income).tax + medicare(income))
individual_tax_2025_26(income) ==
    IF income <= 0
    THEN {0}
    ELSE round2(walk(income).tax + medicare(income))

(* ------------- company_tax_2025_26, smsf_tax_accumulation -------------- *)

company_tax_default_rate(income, rate) == round2(income * 25)
company_tax_2025_26(income, rate) == round2(income * rate)

smsf_tax_accumulation_2025_26(income, rate) == round2(income * rate)

(* -------------------------- tax_split_scenario ------------------------- *)

\* abs(allocated - total_income) > 1.0
allocation_mismatch_ge(allocated, total_income) == Abs(allocated - total_income) >= 100
allocation_mismatch_wide(allocated, total_income) == Abs(allocated - total_income) > Cents(1000)
allocation_mismatch(allocated, total_income) == Abs(allocated - total_income) > 100

\* total_tax = ind_tax + co_tax + smsf_tax
sum_taxes_no_fund(ind_tax, co_tax, smsf_tax) == ind_tax + co_tax
sum_taxes(ind_tax, co_tax, smsf_tax) == ind_tax + co_tax + smsf_tax

\* the decimal digits of r / d after the point, k of them: floor and remainder
RECURSIVE long_division(_, _, _, _)
long_division(q, r, d, k) ==
    IF k = 0 THEN [q |-> q, r |-> r]
    ELSE long_division(q * 10 + (r * 10) \div d, (r * 10) % d, d, k - 1)

\* round(n / d * 10^k, 0) for d > 0: the admissible results
round_ratio(n, d, k) ==
    LET whole == long_division(n \div d, n % d, d, k)
    IN  IF 2 * whole.r < d THEN {whole.q}
        ELSE IF 2 * whole.r > d THEN {whole.q + 1}
        ELSE {whole.q, whole.q + 1}

\* round(total_tax / total_income * 100, 2) if total_income > 0 else 0.0
effective_overall_rate_fraction(total_tax, total_income) ==
    IF total_income > 0 THEN round_ratio(total_tax, total_income, 2) ELSE {0}
effective_overall_rate(total_tax, total_income) ==
    IF total_income > 0 THEN round_ratio(total_tax, total_income, 4) ELSE {0}

\* round(individual_tax_2025_26(total_income) - total_tax, 2)
tax_savings_reversed(total_income, total_tax) ==
    UNION {round2((total_tax - all_ind) * 100) : all_ind \in individual_tax_2025_26(total_income)}
tax_savings_vs_all_individual(total_income, total_tax) ==
    UNION {round2((all_ind - total_tax) * 100) : all_ind \in individual_tax_2025_26(total_income)}

\* the results the call can return; {} when it raises
scenario_results(total_income, individual_amount, company_amount, smsf_amount, company_rate) ==
    LET allocated == individual_amount + company_amount + smsf_amount
    IN  IF allocation_mismatch(allocated, total_income)
        THEN {}
        ELSE UNION { UNION { UNION {
               LET total_tax == sum_taxes(ind_tax, co_tax, smsf_tax)
               IN  { [total_income                 |-> total_income,
                      individual_income            |-> individual_amount,
                      individual_tax_incl_medicare |-> ind_tax,
                      company_income               |-> company_amount,
                      company_tax                  |-> co_tax,
                      smsf_income_earnings         |-> smsf_amount,
                      smsf_tax                     |-> smsf_tax,
                      total_tax_paid               |-> paid,
                      effective_overall_rate       |-> eff,
                      tax_savings_vs_all_individual |-> sav]
                     : paid \in round2(total_tax * 100),
                       eff \in effective_overall_rate(total_tax, total_income),
                       sav \in tax_savings_vs_all_individual(total_income, total_tax) }
               : smsf_tax \in smsf_tax_accumulation_2025_26(smsf_amount, 15) }
               : co_tax \in company_tax_2025_26(company_amount, company_rate) }
               : ind_tax \in individual_tax_2025_26(individual_amount) }

\* raise ValueError(f"Amounts do not add up: {allocated} != {total_income}")
ValueError(allocated, total_income) ==
    [error |-> "ValueError", allocated |-> allocated, total_income |-> total_income]

(* ------------------------------- inputs -------------------------------- *)

Offsets == {k * 25 : k \in -MaxOff..MaxOff} \cup {-1, 1}

BaseDollars == {0, 1, 18200, 45000, 60000, 135000, 190000, 350000}
Incomes == {Cents(b) + o : b \in BaseDollars, o \in Offsets}

Rates == {0, 15, 25, 30}

IndividualAmounts == Offsets \cup {20, 100, Cents(18200) + 1, Cents(60000), Cents(100000)}
CompanyAmounts ==
    (0..MaxSmall) \cup {-25, 50, Cents(109000), Cents(109500), Cents(110000), Cents(180000)}
FundAmounts == (0..MaxSmall) \cup {-1, 10, Cents(29999), Cents(30000), Cents(70000)}
\* total_income - allocated
Differences == {-101, -100, -99, -1, 0, 1, 99, 100, 101, Cents(500), Cents(1000)}
CompanyRates == {0, 25, 30}

\* an amount a binary float holds exactly
Exact(x) == x % 25 = 0

ScenarioArgs ==
    { a \in { <<i + c + f + d, i, c, f, r>> :
                i \in IndividualAmounts, c \in CompanyAmounts, f \in FundAmounts,
                d \in Differences, r \in CompanyRates } :
        Abs(a[2] + a[3] + a[4] - a[1]) = 100 => Exact(a[2]) /\ Exact(a[3]) /\ Exact(a[4]) }

\* the two calls of the __main__ block (company_rate left at its default)
Example1 == <<Cents(200000), Cents(60000), Cents(110000), Cents(30000), 25>>
Example2 == <<Cents(350000), Cents(100000), Cents(180000), Cents(70000), 25>>

NoResult == [none |-> TRUE]

(* ---------------------------- state machine ---------------------------- *)

Init ==
    /\ \/ op = "individual" /\ args \in {<<x>> : x \in Incomes}
       \/ op = "company" /\ args \in {<<x, r>> : x \in Incomes, r \in Rates}
       \/ op = "smsf" /\ args \in {<<x, r>> : x \in Incomes, r \in Rates}
       \/ op = "scenario" /\ args \in ScenarioArgs
       \/ op = "main" /\ args = <<>>
    /\ outcome = "pending"
    /\ ret = NoResult
    /\ taxables = <<>>
    /\ step = 0

CallIndividualTax ==
    /\ op = "individual" /\ outcome = "pending"
    /\ \E t \in individual_tax_2025_26(args[1]) : ret' = [value |-> t]
    /\ taxables' = IF args[1] <= 0 THEN <<>> ELSE walk(args[1]).taxables
    /\ outcome' = "return"
    /\ UNCHANGED <<op, args, step>>

CallCompanyTax ==
    /\ op = "company" /\ outcome = "pending"
    /\ \E t \in company_tax_2025_26(args[1], args[2]) : ret' = [value |-> t]
    /\ outcome' = "return"
    /\ UNCHANGED <<op, args, taxables, step>>

CallSmsfTax ==
    /\ op = "smsf" /\ outcome = "pending"
    /\ \E t \in smsf_tax_accumulation_2025_26(args[1], args[2]) : ret' = [value |-> t]
    /\ outcome' = "return"
    /\ UNCHANGED <<op, args, taxables, step>>

\* one call of tax_split_scenario with arguments a
Scenario(a) ==
    LET results == scenario_results(a[1], a[2], a[3], a[4], a[5])
    IN  IF results = {}
        THEN /\ outcome' = "raise"
             /\ ret' = ValueError(a[2] + a[3] + a[4], a[1])
        ELSE /\ outcome' = "return"
             /\ ret' \in results

CallTaxSplitScenario ==
    /\ op = "scenario" /\ outcome = "pending"
    /\ Scenario(args)
    /\ UNCHANGED <<op, args, taxables, step>>

MainExample1 ==
    /\ op = "main" /\ step = 0
    /\ Scenario(Example1)
    /\ args' = Example1
    /\ step' = 1
    /\ UNCHANGED <<op, taxables>>

MainExample2 ==
    /\ op = "main" /\ step = 1 /\ outcome = "return"
    /\ Scenario(Example2)
    /\ args' = Example2
    /\ step' = 2
    /\ UNCHANGED <<op, taxables>>

Next ==
    \/ CallIndividualTax
    \/ CallCompanyTax
    \/ CallSmsfTax
    \/ CallTaxSplitScenario
    \/ MainExample1
    \/ MainExample2

Spec == Init /\ [][Next]_vars

(* ------------------------ vocabulary of the claims --------------------- *)

\* the call has finished (returned or raised)
Finished == outcome # "pending"
IndividualReturned == op = "individual" /\ outcome = "return"
ScenarioFinished == op \in {"scenario", "main"} /\ Finished
ScenarioReturned == ScenarioFinished /\ outcome = "return"

TotalIncome == args[1]
IndividualAmount == args[2]
CompanyAmount == args[3]
FundAmount == args[4]
CompanyRate == args[5]
Allocated == args[2] + args[3] + args[4]

\* c cents is a rounding to 2 decimals of x cent-percents
NearestCent(c, x) == Abs(100 * c - x) <= 50
\* x cent-percents is not half-way between two cents
NoTie(x) == x % 100 # 50

\* the bracket thresholds and marginal rates as the specification states them
Thresholds == <<0, 1820000, 4500000, 13500000, 19000000>>
MarginalRates == <<0, 16, 30, 37, 45>>
\* the part of income between threshold j and the next one
Slice(income, j) ==
    LET top == IF j = 5 THEN income ELSE Min(income, Thresholds[j + 1])
    IN  Max(0, top - Thresholds[j])
RECURSIVE SliceTax(_, _)
SliceTax(income, j) ==
    IF j = 0 THEN 0 ELSE SliceTax(income, j - 1) + Slice(income, j) * MarginalRates[j]
\* unrounded bracket tax plus 2% levy of a positive income; 0 otherwise
UnroundedIndividual(income) ==
    IF income <= 0 THEN 0 ELSE SliceTax(income, 5) + 2 * income

RECURSIVE SumPositive(_, _)
SumPositive(seq, n) ==
    IF n = 0 THEN 0 ELSE SumPositive(seq, n - 1) + Max(0, seq[n])

\* the sum of the three reported entity taxes
ReportedTaxes ==
    ret.individual_tax_incl_medicare + ret.company_tax + ret.smsf_tax

\* rate (hundredths of a percent) is a rounding to 2 decimals of tax / income * 100;
\* small taxes are compared by cross-multiplication, large ones by long division
NearestRate(rate, tax, income) ==
    IF Abs(tax) <= Cents(1000)
    THEN (2 * rate - 1) * income <= 20000 * tax /\ 20000 * tax <= (2 * rate + 1) * income
    ELSE rate \in round_ratio(tax, income, 4)

(* -------------------------------- claims ------------------------------- *)

\* C1: tax_split_scenario raises the allocation-mismatch ValueError exactly
\* when |individual + company + fund - total| > 1.00; a difference of 1.00
\* or less is accepted, and a raising call produces no result record.
C1_MismatchIffOverTolerance ==
    ScenarioFinished =>
        /\ (outcome = "raise") <=> (Abs(Allocated - TotalIncome) > 100)
        /\ outcome = "raise" => ret = ValueError(Allocated, TotalIncome)
        /\ outcome = "return" => ret.total_income = TotalIncome

C1_Witness ==
    /\ ScenarioReturned
    /\ Abs(Allocated - TotalIncome) = 100

\* C2: for every accepted split and company_rate, total_tax_paid is the sum
\* of the individual tax of the individual amount, the company tax of the
\* company amount at company_rate and the fund tax of the fund amount at 15%.
C2_TotalIsSumOfEntityTaxes ==
    ScenarioReturned =>
        /\ ret.total_tax_paid = ReportedTaxes
        /\ NearestCent(ret.individual_tax_incl_medicare, UnroundedIndividual(IndividualAmount))
        /\ NearestCent(ret.company_tax, CompanyAmount * CompanyRate)
        /\ NearestCent(ret.smsf_tax, FundAmount * 15)

C2_Witness ==
    /\ ScenarioReturned
    /\ CompanyRate = 30
    /\ ret.individual_tax_incl_medicare > 0 /\ ret.company_tax > 0 /\ ret.smsf_tax > 0

\* C3: individual_tax_2025_26 returns exactly 0 for every income <= 0, and
\* for income > 0 the rounded bracket tax plus 2% of the income, which is
\* non-negative.
C3_ZeroForNonPositiveIncome ==
    IndividualReturned =>
        /\ args[1] <= 0 => ret.value = 0
        /\ args[1] > 0 =>
              /\ NearestCent(ret.value, SliceTax(args[1], 5) + 2 * args[1])
              /\ ret.value >= 0

C3_Witness ==
    /\ IndividualReturned
    /\ args[1] < 0
    /\ ret.value = 0

\* C4: individual_tax_2025_26 is non-decreasing in income for income >= 0:
\* the tax of every smaller non-negative income is at most the tax returned.
C4_Monotonic ==
    IndividualReturned =>
        \A a \in Incomes :
            (0 <= a /\ a < args[1]) =>
                \A t \in individual_tax_2025_26(a) : t <= ret.value

C4_Witness ==
    /\ IndividualReturned
    /\ args[1] = Cents(45000) + 1
    /\ \E t \in individual_tax_2025_26(Cents(45000)) : t = ret.value

\* C5: at a bracket boundary B the tax is the sum of the full lower brackets
\* plus 2% of B (364.00, 5188.00, 33988.00, 55438.00), and the bracket above
\* B is not entered.
C5_BoundaryTax ==
    IndividualReturned =>
        \A j \in 1..4 :
            args[1] = Thresholds[j + 1] =>
                /\ ret.value = <<36400, 518800, 3398800, 5543800>>[j]
                /\ 100 * ret.value = SliceTax(Thresholds[j + 1], j) + 2 * Thresholds[j + 1]
                /\ Len(taxables) = j

C5_Witness ==
    /\ IndividualReturned
    /\ args[1] = Cents(190000)
    /\ ret.value = 5543800

\* C6: for every accepted scenario effective_overall_rate is 0 when
\* total_income <= 0, even with a non-zero total tax, and total_tax /
\* total_income * 100 rounded to 2 decimals when total_income > 0.
C6_EffectiveRate ==
    ScenarioReturned =>
        /\ TotalIncome <= 0 => ret.effective_overall_rate = 0
        /\ TotalIncome > 0 => NearestRate(ret.effective_overall_rate, ReportedTaxes, TotalIncome)

C6_Witness ==
    /\ ScenarioReturned
    /\ TotalIncome <= 0
    /\ ret.total_tax_paid # 0
    /\ ret.effective_overall_rate = 0

\* C7 as stated: with total_income = 200000, sub-amounts summing to 199000
\* raise and sub-amounts summing to 199500 are accepted.
C7_AsStated ==
    (ScenarioFinished /\ TotalIncome = Cents(200000)) =>
        /\ Allocated = Cents(199000) => outcome = "raise"
        /\ Allocated = Cents(199500) => outcome = "return"

\* C7 amended: with total_income = 200000, sub-amounts summing to 199000 and
\* sub-amounts summing to 199500 both raise; sub-amounts summing to 199999
\* are accepted.
C7_BothRaise ==
    (ScenarioFinished /\ TotalIncome = Cents(200000)) =>
        /\ Allocated \in {Cents(199000), Cents(199500)} => outcome = "raise"
        /\ Allocated = Cents(199999) => outcome = "return"

C7_Witness ==
    /\ ScenarioFinished
    /\ TotalIncome = Cents(200000)
    /\ Allocated = Cents(199500)
    /\ outcome = "raise"

\* C8: for every accepted scenario tax_savings_vs_all_individual is the
\* individual tax of total_income minus the total tax; the 350000 example
\* has company tax 45000.00, fund tax 10500.00 and non-negative savings.
C8_Savings ==
    ScenarioReturned =>
        /\ NearestCent(ret.tax_savings_vs_all_individual + ReportedTaxes,
                       UnroundedIndividual(TotalIncome))
        /\ args = Example2 =>
              /\ ret.company_tax = 4500000
              /\ ret.smsf_tax = 1050000
              /\ ret.tax_savings_vs_all_individual >= 0

C8_Witness ==
    /\ op = "main" /\ step = 2 /\ outcome = "return"
    /\ args = Example2
    /\ ret.tax_savings_vs_all_individual = 5235000

\* the scenario's sub-amounts are non-negative and add up to total_income
NonNegativeAmounts ==
    /\ IndividualAmount >= 0 /\ CompanyAmount >= 0 /\ FundAmount >= 0
    /\ TotalIncome = Allocated

\* C9 as stated, on scenarios with non-negative sub-amounts adding up to
\* total_income where no entity's unrounded tax is half-way between two
\* cents: total_tax_paid is the 2-decimal rounding of the unrounded sum of
\* the three entity taxes.
C9_AsStated ==
    (/\ ScenarioReturned
     /\ NonNegativeAmounts
     /\ NoTie(UnroundedIndividual(IndividualAmount))
     /\ NoTie(CompanyAmount * CompanyRate)
     /\ NoTie(FundAmount * 15)) =>
        NearestCent(ret.total_tax_paid,
                    UnroundedIndividual(IndividualAmount) + CompanyAmount * CompanyRate
                        + FundAmount * 15)

\* C9 amended: each entity's tax is rounded to 2 decimals on its own, and
\* total_tax_paid, effective_overall_rate and the savings are computed from
\* the sum of the three rounded taxes; total_tax_paid is within 1.5 cents of
\* the unrounded sum.
C9_RoundedPerEntity ==
    ScenarioReturned =>
        /\ NearestCent(ret.individual_tax_incl_medicare, UnroundedIndividual(IndividualAmount))
        /\ NearestCent(ret.company_tax, CompanyAmount * CompanyRate)
        /\ NearestCent(ret.smsf_tax, FundAmount * 15)
        /\ ret.total_tax_paid = ReportedTaxes
        /\ Abs(100 * ret.total_tax_paid
               - (UnroundedIndividual(IndividualAmount) + CompanyAmount * CompanyRate
                  + FundAmount * 15)) <= 150
        /\ \E all_ind \in individual_tax_2025_26(TotalIncome) :
              ret.tax_savings_vs_all_individual = all_ind - ReportedTaxes
        /\ TotalIncome > 0 =>
              ret.effective_overall_rate \in round_ratio(ReportedTaxes, TotalIncome, 4)

C9_Witness ==
    /\ ScenarioReturned
    /\ NonNegativeAmounts
    /\ NoTie(UnroundedIndividual(IndividualAmount))
    /\ NoTie(CompanyAmount * CompanyRate)
    /\ NoTie(FundAmount * 15)
    /\ ~ NearestCent(ret.total_tax_paid,
                     UnroundedIndividual(IndividualAmount) + CompanyAmount * CompanyRate
                         + FundAmount * 15)

\* C10: for income > 0 the bracket walk partitions the income: the positive
\* taxable portions sum to the income, the portion of bracket j is
\* min(income, upper j) minus the upper bound of bracket j - 1, the walk
\* enters exactly the brackets whose floor is below the income, and income
\* above 190000 is taxed at 45% in the last bracket.
C10_BracketPartition ==
    (IndividualReturned /\ args[1] > 0) =>
        /\ SumPositive(taxables, Len(taxables)) = args[1]
        /\ \A j \in 1..5 : (j <= Len(taxables)) <=> (Thresholds[j] < args[1])
        /\ \A j \in 1..Len(taxables) :
              taxables[j] = (IF j = 5 THEN args[1] ELSE Min(args[1], Thresholds[j + 1]))
                                - Thresholds[j]
        /\ args[1] > Thresholds[5] =>
              /\ taxables[5] = args[1] - Thresholds[5]
              /\ NearestCent(ret.value,
                    SliceTax(Thresholds[5], 4) + 45 * (args[1] - Thresholds[5]) + 2 * args[1])

C10_Witness ==
    /\ IndividualReturned
    /\ args[1] = Cents(350000)
    /\ Len(taxables) = 5
    /\ taxables[5] = Cents(160000)

====
